---- MODULE Spec2Model ----
(***************************************************************************)
(* Model of the auto-healing Jira reporter (reporters/jira-reporter.js).    *)
(*                                                                          *)
(* Strings that the code searches (error messages, log text, test titles)   *)
(* are sequences of words; String.prototype.includes is the search for a    *)
(* contiguous run of words.  An optional value (a field that may be         *)
(* undefined) is a sequence of length 0 or 1.                               *)
(***************************************************************************)
EXTENDS Integers, Sequences, FiniteSets, TLC

VARIABLES
  autoHealEnabled,  \* this.autoHealEnabled
  testResults,      \* this.testResults
  failedTests,      \* this.failedTests
  ignored,          \* number of onTestEnd calls that returned early (no test id)
  pc,               \* position of the reporter: running, healing, summary, execution, done
  healingResults,   \* local healingResults of autoHealFailedTests
  heal,             \* per loop iteration: position and locals of healSingleTest
  procs,            \* child processes started by exec and not yet called back
  files,            \* content of the test files on disk
  jira,             \* kinds of the issues posted to Jira, in order
  healingSummary,   \* the counters of each report built by generateHealingSummary
  env,              \* which behaviours of the surroundings are explored: "single"
                    \* (all, for one test), "batch" or "live" (fewer, for a batch)
  arg,              \* input of the function under study (function specifications)
  ret,              \* its output
  sync,             \* the TraceabilityMatrixSync object, its loop and its results
  tracker           \* the issues of the Jira project: the Test ID of each, by key

vars == <<autoHealEnabled, testResults, failedTests, ignored, pc, healingResults,
          heal, procs, files, jira, healingSummary, env, arg, ret,
                 sync, tracker>>

----------------------------------------------------------------------------
(* Bounds *)

MaxTests == 2        \* onTestEnd calls in one run
MaxSingle == 1       \* the same, where every behaviour of the surroundings is explored
MaxMsgLen == 4       \* words in an error message handed to the classifier
MaxSummaryN == 40    \* results in a healing summary (function specification)
MaxDecls == 2        \* test declarations in a test file that is patched
MaxCases == 2        \* rows of the traceability matrix (CSV file)
MaxRuns == 2         \* runs of the sync script over the same CSV file

----------------------------------------------------------------------------
(* Strings *)

Words ==
  {"Test", "timeout", "30000ms", "exceeded", "strict", "mode", "violation",
   "multiple", "elements", "Element", "not", "found", "visible", "page.goto",
   "navigation"}

Messages == UNION {[1..n -> Words] : n \in 0..MaxMsgLen}

\* s.includes(p)
Includes(s, p) ==
  \E k \in 0..(Len(s) - Len(p)) : SubSeq(s, k + 1, k + Len(p)) = p

\* x || '' for an optional string x (undefined and '' are both falsy)
OrEmpty(x) == IF x = <<>> THEN <<>> ELSE x[1]

----------------------------------------------------------------------------
(* analyzeFailureAndCreateStrategy *)

UnknownStrategy ==
  [type |-> "unknown", fixes |-> <<>>,
   reason |-> "Unable to determine failure cause"]

TimeoutStrategy ==
  [type |-> "timeout",
   fixes |-> <<"increase_timeout", "add_wait_conditions", "optimize_selectors">>,
   reason |-> "Test is timing out - likely due to slow loading or incorrect wait conditions"]

SelectorStrategy ==
  [type |-> "selector",
   fixes |-> <<"add_exact_matching", "improve_selector_specificity", "add_unique_locators">>,
   reason |-> "Multiple elements match selector - need more specific locators"]

ElementStrategy ==
  [type |-> "element_missing",
   fixes |-> <<"update_selectors", "add_wait_for_element", "check_page_structure">>,
   reason |-> "Element selectors need updating - page structure may have changed"]

NavigationStrategy ==
  [type |-> "navigation",
   fixes |-> <<"add_retry_logic", "increase_navigation_timeout", "add_network_conditions">>,
   reason |-> "Navigation issues - network or page loading problems"]

\* The if / else-if chain over the error text, with the selector test moved
\* in front of the timeout test.
StrategyForErrorSelectorFirst(error) ==
  IF Includes(error, <<"strict", "mode", "violation">>)
       \/ Includes(error, <<"multiple", "elements">>)
    THEN SelectorStrategy
  ELSE IF Includes(error, <<"Test", "timeout">>)
       \/ Includes(error, <<"30000ms", "exceeded">>)
    THEN TimeoutStrategy
  ELSE IF Includes(error, <<"Element", "not", "found">>)
       \/ Includes(error, <<"not", "visible">>)
    THEN ElementStrategy
  ELSE IF Includes(error, <<"page.goto">>)
       \/ Includes(error, <<"navigation">>)
    THEN NavigationStrategy
  ELSE UnknownStrategy

\* The if / else-if chain over the error text.
StrategyForError(error) ==
  IF Includes(error, <<"Test", "timeout">>)
       \/ Includes(error, <<"30000ms", "exceeded">>)
    THEN TimeoutStrategy
  ELSE IF Includes(error, <<"strict", "mode", "violation">>)
       \/ Includes(error, <<"multiple", "elements">>)
    THEN SelectorStrategy
  ELSE IF Includes(error, <<"Element", "not", "found">>)
       \/ Includes(error, <<"not", "visible">>)
    THEN ElementStrategy
  ELSE IF Includes(error, <<"page.goto">>)
       \/ Includes(error, <<"navigation">>)
    THEN NavigationStrategy
  ELSE UnknownStrategy

\* the classifier, if it looked at the log of the debug run instead of the
\* error of the failed test
analyzeDebugLog(failedTest, debugResult) == StrategyForError(debugResult.log)

\* const error = failedTest.error || ''; debugResult.log is read into a local
\* that no branch uses.
analyzeFailureAndCreateStrategy(failedTest, debugResult) ==
  StrategyForError(OrEmpty(failedTest.error))

----------------------------------------------------------------------------
(* Test files.  The content of a file is a sequence of pieces of source   *)
(* text; a regular expression of the code matches whole pieces.            *)

TestDecl == "test("
SetTimeoutStmt == "test.setTimeout(60000);"
SlowStmt == "test.slow();"
Goto == "page.goto('/')"
GotoWithOptions == "page.goto('/', { waitUntil: 'load', timeout: 60000 })"
Locator == "page.locator('#go')"
First == ".first()"
GetByText == "page.getByText('Go')"
GetByTextExact == "page.getByText('Go', { exact: true })"
Click == ".click()"
WaitForVisible == ".waitFor({ state: \"visible\" })"
EndTest == "});"

\* pieces that begin with "page."
PagePieces == {Goto, GotoWithOptions, Locator, GetByText, GetByTextExact}
\* pieces that contain a semicolon
SemicolonPieces == {";", SetTimeoutStmt, SlowStmt, EndTest}

\* content.replace(/piece/g, replacement): every occurrence is replaced and
\* the replacement text is not scanned again
RECURSIVE ReplaceAll(_, _, _)
ReplaceAll(content, piece, replacement) ==
  IF content = <<>> THEN <<>>
  ELSE (IF Head(content) = piece THEN replacement ELSE <<Head(content)>>)
         \o ReplaceAll(Tail(content), piece, replacement)

\* content.includes(piece)
Contains(content, piece) == \E i \in 1..Len(content) : content[i] = piece

applyTimeoutFixes(content) ==
  LET c1 == IF ~Contains(content, SetTimeoutStmt)
              THEN ReplaceAll(content, TestDecl, <<SetTimeoutStmt, TestDecl>>)
              ELSE content
  IN  \* 'await page.goto(' is replaced by itself
      c1

applySelectorFixes(content) ==
  LET c1 == ReplaceAll(content, GetByText, <<GetByTextExact>>)
  IN  ReplaceAll(c1, Locator, <<Locator, First>>)

\* /await (page\.[^;]+\.click\(\))/ at position i: the last index of the
\* longest match, or 0 when there is none
ClickMatchEnd(content, i) ==
  LET ends == {j \in (i + 2)..Len(content) :
                 /\ content[i] = "await"
                 /\ content[i + 1] \in PagePieces
                 /\ content[j] = Click
                 /\ \A k \in (i + 1)..j : content[k] \notin SemicolonPieces}
  IN  IF ends = {} THEN 0 ELSE CHOOSE j \in ends : \A k \in ends : k <= j

RECURSIVE ElementFixFrom(_, _)
ElementFixFrom(content, i) ==
  IF i > Len(content) THEN <<>>
  ELSE LET j == ClickMatchEnd(content, i)
       IN  IF j = 0
             THEN <<content[i]>> \o ElementFixFrom(content, i + 1)
             ELSE LET target == SubSeq(content, i + 1, j)
                  IN  <<"await">> \o target \o <<WaitForVisible, ";", "await">>
                        \o target \o ElementFixFrom(content, j + 1)

applyElementFixes(content) == ElementFixFrom(content, 1)

applyNavigationFixes(content) ==
  ReplaceAll(content, Goto, <<GotoWithOptions>>)

applyGeneralFixes(content) ==
  IF ~Contains(content, SlowStmt)
    THEN ReplaceAll(content, TestDecl, <<SlowStmt, TestDecl>>)
    ELSE content

\* the switch of applyTestFixes
PatchedContent(content, strategy) ==
  CASE strategy.type = "timeout" -> applyTimeoutFixes(content)
    [] strategy.type = "selector" -> applySelectorFixes(content)
    [] strategy.type = "element_missing" -> applyElementFixes(content)
    [] strategy.type = "navigation" -> applyNavigationFixes(content)
    [] OTHER -> applyGeneralFixes(content)

FixDescription(strategy) ==
  CASE strategy.type = "timeout" -> "Added timeout configurations and wait conditions"
    [] strategy.type = "selector" -> "Improved selector specificity and exact matching"
    [] strategy.type = "element_missing" -> "Updated selectors and added element wait conditions"
    [] strategy.type = "navigation" -> "Enhanced navigation reliability and timeouts"
    [] OTHER -> "Added general test resilience improvements"

\* applyTestFixes(testFile, strategy) on the file system fs, where io says
\* what the file system does: "ok", "readError" or "writeError".
\* Returns the applied fix descriptions and the file system afterwards.
applyTestFixes(fs, testFile, strategy, io) ==
  IF io = "readError"
    THEN [appliedFixes |-> <<"Error applying fixes: read failed">>, fs |-> fs]
  ELSE IF io = "writeError"
    THEN [appliedFixes |-> <<FixDescription(strategy),
                              "Error applying fixes: write failed">>,
          fs |-> fs]
  ELSE [appliedFixes |-> <<FixDescription(strategy)>>,
        fs |-> [fs EXCEPT ![testFile] = PatchedContent(fs[testFile], strategy)]]

----------------------------------------------------------------------------
(* The test run observed by the reporter *)

Titles == {<<"VAL-1", ":", "loads">>, <<"VAL-2", ":", "submits">>, <<"smoke", "test">>}
TestIds == {"VAL-1", "VAL-2"}
Files == {"tests/a.spec.js", "tests/b.spec.js"}

\* test.location.file of the test with this title
FileOf(title) == IF title[1] = "VAL-2" THEN "tests/b.spec.js" ELSE "tests/a.spec.js"

InitialContent ==
  <<TestDecl, "await", Goto, ";", "await", Locator, Click, ";", EndTest,
    TestDecl, "await", GetByText, Click, ";", EndTest>>

\* result.error?.message of a failed test: absent, or a message
FailureMessages ==
  {<<>>,
   << <<"Test", "timeout", "30000ms", "exceeded">> >>,
   << <<"Element", "not", "found">> >>}

\* the failures looked at: any message for any test, or (env "batch" and
\* "live") the first test timing out and the second failing without a message
FailuresOf(title) ==
  IF env = "single" THEN FailureMessages
  ELSE IF title[1] = "VAL-1" THEN {<< <<"Test", "timeout", "30000ms", "exceeded">> >>}
  ELSE {<<>>}

Limit == IF env = "single" THEN MaxSingle ELSE MaxTests

\* result.status of a test that did not pass
UnsuccessfulStatuses == IF env = "live" THEN {"failed"} ELSE {"failed", "timedOut"}

\* title.match(/(VAL-\d+):/): the captured id, or nothing
TestIdMatch(title) ==
  LET hits == {i \in 1..(Len(title) - 1) : title[i] \in TestIds /\ title[i + 1] = ":"}
  IN  IF hits = {} THEN <<>>
      ELSE <<title[CHOOSE i \in hits : \A k \in hits : i <= k]>>

----------------------------------------------------------------------------
(* Child processes and their output *)

\* what the debug run prints: nothing, or a report with the reproduced error
DebugLogs == {<<>>, <<"strict", "mode", "violation">>}

\* what the rerun prints: text that JSON.parse rejects, a document without a
\* first suite/spec/test/result, or a document whose first result has a status
RerunOutputs ==
  {[kind |-> "malformed", status |-> "", duration |-> 0, error |-> <<>>],
   [kind |-> "noentry", status |-> "", duration |-> 0, error |-> <<>>],
   [kind |-> "result", status |-> "passed", duration |-> 1200, error |-> <<>>],
   [kind |-> "result", status |-> "failed", duration |-> 1200,
    error |-> << <<"still", "failing">> >>],
   [kind |-> "result", status |-> "timedOut", duration |-> 30000,
    error |-> << <<"Test", "timeout">> >>]}

ExecErrors == {"none", "exit", "killed"}

\* how a debug run ends: the error handed to the callback and the output
DebugOutcomes ==
  IF env = "single" THEN ExecErrors \X DebugLogs
  ELSE IF env = "batch"
    THEN {<<"none", <<>>>>, <<"exit", <<"strict", "mode", "violation">>>>,
          <<"killed", <<>>>>}
  ELSE {<<"exit", <<>>>>, <<"killed", <<>>>>}

\* how a rerun ends
RerunOutcomes ==
  IF env = "single" THEN ExecErrors \X RerunOutputs
  ELSE IF env = "batch"
    THEN {<<"none", [kind |-> "result", status |-> "passed", duration |-> 1200,
                     error |-> <<>>]>>,
          <<"exit", [kind |-> "result", status |-> "failed", duration |-> 1200,
                     error |-> << <<"still", "failing">> >>]>>,
          <<"killed", [kind |-> "malformed", status |-> "", duration |-> 0,
                       error |-> <<>>]>>}
  ELSE {<<"none", [kind |-> "result", status |-> "passed", duration |-> 1200,
                   error |-> <<>>]>>,
        <<"killed", [kind |-> "malformed", status |-> "", duration |-> 0,
                     error |-> <<>>]>>}

\* what the file system does when the test file is patched
IOOutcomes ==
  IF env = "single" THEN {"ok", "readError", "writeError"}
  ELSE IF env = "batch" THEN {"ok", "writeError"}
  ELSE {"ok"}

\* exec without a timeout option: no child is ever killed
NeverKilled(p) == FALSE

\* exec is given a timeout option, so a child that is still running when it
\* expires is killed and the callback runs with an error
KillAtTimeout(p) == p \in procs

\* the callback of runPlaywrightDebug; error as for the rerun
DebugResultOf(error, stdout) ==
  [success |-> error = "none",
   log |-> stdout,
   error |-> IF error # "none" THEN << <<"Command", "failed">> >> ELSE <<>>]

\* the callback of rerunSingleTest; error is "none", "exit" (the child failed
\* to run or exited with a non-zero code) or "killed" (the timeout expired)
RerunResultOf(error, stdout) ==
  IF stdout.kind = "malformed"
    THEN [status |-> "failed", duration |-> 0,
          error |-> << <<"Failed", "to", "parse", "test", "results">> >>,
          success |-> FALSE]
  ELSE IF stdout.kind = "noentry"
    THEN [status |-> "unknown", duration |-> 0, error |-> <<>>, success |-> FALSE]
  ELSE [status |-> stdout.status, duration |-> stdout.duration,
        error |-> stdout.error,
        success |-> error = "none" /\ stdout.status = "passed"]

NoDebugResult == [success |-> FALSE, log |-> <<>>, error |-> <<>>]
NoRerunResult == [status |-> "", duration |-> 0, error |-> <<>>, success |-> FALSE]

\* the locals of a call of healSingleTest that has not started or has returned;
\* rerunError and rerunStdout are the arguments the rerun's callback was given
Locals(phase) ==
  [phase |-> phase, debugResult |-> NoDebugResult, fixStrategy |-> UnknownStrategy,
   appliedFixes |-> <<>>, rerunResult |-> NoRerunResult, rerunError |-> "none",
   rerunStdout |-> ""]

----------------------------------------------------------------------------
(* IEEE 754 double arithmetic, as far as generateHealingSummary uses it.   *)
(* A positive double is [hi, mid, lo, exp]: its 53 binary digits cut into  *)
(* 18 + 18 + 17 of them (hi >= 2^17), the first digit of weight 2^exp, so  *)
(* that its value is (hi * 2^35 + mid * 2^17 + lo) * 2^(exp - 52).         *)

\* the next double up
NextUp(m) ==
  IF m.lo + 1 < 2^17 THEN [m EXCEPT !.lo = m.lo + 1]
  ELSE IF m.mid + 1 < 2^18 THEN [m EXCEPT !.lo = 0, !.mid = m.mid + 1]
  ELSE IF m.hi + 1 < 2^18 THEN [m EXCEPT !.lo = 0, !.mid = 0, !.hi = m.hi + 1]
  ELSE [hi |-> 2^17, mid |-> 0, lo |-> 0, exp |-> m.exp + 1]

\* round to nearest, ties to even: m are the first 53 digits of the exact
\* value, guard is the digit after them, sticky tells whether more follow
RoundNearestEven(m, guard, sticky) ==
  IF guard = 1 /\ (sticky \/ (m.lo % 2) = 1) THEN NextUp(m) ELSE m

\* r doubled until it reaches n, with the exponent that goes down with it
RECURSIVE Normalise(_, _, _)
Normalise(r, n, e) == IF r >= n THEN [r |-> r, exp |-> e] ELSE Normalise(2 * r, n, e - 1)

\* the double h / n, for integers 0 < h <= n < 2^12: long division, 54
\* digits of the quotient in three steps
F64Div(h, n) ==
  LET start == Normalise(h, n, 0)
      d1 == (start.r * (2^17)) \div n
      r1 == (start.r * (2^17)) % n
      d2 == (r1 * (2^18)) \div n
      r2 == (r1 * (2^18)) % n
      d3 == (r2 * (2^18)) \div n
      r3 == (r2 * (2^18)) % n
  IN  RoundNearestEven([hi |-> d1, mid |-> d2, lo |-> d3 \div 2, exp |-> start.exp],
                       d3 % 2, r3 # 0)

\* the double x * 100: the exact product 25 x has 57 or 58 digits, of which
\* the last k = 4 or 5 are rounded away; the factor 4 only moves the exponent
F64Times100(x) ==
  LET pl == 25 * x.lo
      pm == (25 * x.mid) + (pl \div (2^17))
      ph == (25 * x.hi) + (pm \div (2^18))
      lo == pl % (2^17)
      mid == pm % (2^18)
      k == IF ph < 2^22 THEN 4 ELSE 5
      dropped == lo % (2^k)
  IN  RoundNearestEven([hi |-> ph \div (2^k),
                        mid |-> (mid \div (2^k)) + ((ph % (2^k)) * (2^(18 - k))),
                        lo |-> (lo \div (2^k)) + ((mid % (2^k)) * (2^(17 - k))),
                        exp |-> x.exp + k + 2],
                       dropped \div (2^(k - 1)), (dropped % (2^(k - 1))) # 0)

\* Math.round(x) for 0 < x < 2^17: the nearest integer, a tie going up
MathRound(x) ==
  IF x.exp < -1 THEN 0
  ELSE (x.hi \div (2^(17 - x.exp))) + ((x.hi \div (2^(16 - x.exp))) % 2)

\* Math.round((healed / total) * 100), 0 <= healed <= total, total > 0
PercentRounded(healed, total) ==
  IF healed = 0 THEN 0 ELSE MathRound(F64Times100(F64Div(healed, total)))

----------------------------------------------------------------------------
(* generateHealingSummary: the counters of the report *)

\* healingResults.filter(r => r.success).length
CountSuccess(results) == Cardinality({k \in 1..Len(results) : results[k].success})

generateHealingSummary(results) ==
  LET healed == CountSuccess(results)
  IN  [healed |-> healed,
       failed |-> Len(results) - healed,
       total |-> Len(results),
       rateIsNaN |-> Len(results) = 0,
       successRate |-> IF Len(results) = 0 THEN 0
                       ELSE PercentRounded(healed, Len(results))]

----------------------------------------------------------------------------
(* The reporter *)

\* no TraceabilityMatrixSync object exists in a run of the reporter
NoSync == [made |-> FALSE]

Init ==
  /\ autoHealEnabled \in BOOLEAN
  /\ testResults = <<>>
  /\ failedTests = <<>>
  /\ ignored = 0
  /\ pc = "running"
  /\ healingResults = <<>>
  /\ heal = [i \in 1..MaxTests |-> Locals("pending")]
  /\ procs = {}
  /\ files = [f \in Files |-> InitialContent]
  /\ jira = <<>>
  /\ healingSummary = <<>>
  /\ env = "batch"
  /\ arg = <<>>
  /\ ret = <<>>
  /\ sync = NoSync
  /\ tracker = <<>>

\* one failed test at most, and every behaviour of the surroundings
InitSingle ==
  /\ autoHealEnabled \in BOOLEAN
  /\ testResults = <<>>
  /\ failedTests = <<>>
  /\ ignored = 0
  /\ pc = "running"
  /\ healingResults = <<>>
  /\ heal = [i \in 1..MaxTests |-> Locals("pending")]
  /\ procs = {}
  /\ files = [f \in Files |-> InitialContent]
  /\ jira = <<>>
  /\ healingSummary = <<>>
  /\ env = "single"
  /\ arg = <<>>
  /\ ret = <<>>
  /\ sync = NoSync
  /\ tracker = <<>>

\* the condition under which onTestEnd tracks a test for healing, if the
\* autoHeal option were not looked at
TrackFailedAlways(status) == status = "failed"

\* the condition under which onTestEnd tracks a test for healing
TrackFailed(status) == status = "failed" /\ autoHealEnabled

\* onTestEnd(test, result)
OnTestEnd(title, status, error) ==
  /\ pc = "running"
  /\ Len(testResults) + ignored < Limit
  /\ LET testIdMatch == TestIdMatch(title)
         testData == [testId |-> testIdMatch[1], title |-> title, status |-> status,
                      error |-> error, file |-> FileOf(title)]
     IN  IF testIdMatch = <<>>
           THEN /\ ignored' = ignored + 1
                /\ UNCHANGED <<testResults, failedTests>>
           ELSE /\ testResults' = Append(testResults, testData)
                /\ failedTests' = IF TrackFailed(status)
                                    THEN Append(failedTests, testData)
                                    ELSE failedTests
                /\ UNCHANGED ignored
  /\ UNCHANGED <<autoHealEnabled, pc, healingResults, heal, procs, files, jira,
                 healingSummary, env, arg, ret,
                 sync, tracker>>

\* the condition under which onEnd calls autoHealFailedTests, if the number
\* of failed tests were not looked at
ShouldHealWhenEnabled == autoHealEnabled

\* the condition under which onEnd calls autoHealFailedTests
ShouldHeal == autoHealEnabled /\ Len(failedTests) > 0

\* onEnd(result), up to the call of autoHealFailedTests or createTestExecution
OnEnd ==
  /\ pc = "running"
  /\ pc' = IF ShouldHeal THEN "healing" ELSE "execution"
  /\ UNCHANGED <<autoHealEnabled, testResults, failedTests, ignored, healingResults,
                 heal, procs, files, jira, healingSummary, env, arg, ret,
                 sync, tracker>>

\* the loop of autoHealFailedTests takes the failed tests one after the other
\* and awaits healSingleTest and the delay before it takes the next, if the
\* loop took the next test as soon as the previous call had been made
StartedPrevious(i) == IF i = 1 THEN TRUE ELSE heal[i - 1].phase # "pending"

\* the loop of autoHealFailedTests takes the failed tests one after the other
\* and awaits healSingleTest and the delay before it takes the next
AwaitPrevious(i) == IF i = 1 THEN TRUE ELSE heal[i - 1].phase = "finished"

\* the catch block of autoHealFailedTests, dropping the failed test
CaughtResultsDropped(results, failedTest) == results

\* the catch block of autoHealFailedTests
CaughtResults(results, failedTest) ==
  Append(results, [testId |-> failedTest.testId, success |-> FALSE,
                   error |-> <<"exec", "failed">>, changes |-> <<>>,
                   finalStatus |-> "failed"])

Frame == UNCHANGED <<autoHealEnabled, testResults, failedTests, ignored, pc, jira,
                     healingSummary, env, arg, ret,
                 sync, tracker>>

\* healSingleTest, step 1: runPlaywrightDebug calls exec, which starts a child
\* or throws (process.cwd() fails when the working directory is gone)
StartDebug(i) ==
  /\ pc = "healing"
  /\ i \in 1..Len(failedTests)
  /\ heal[i].phase = "pending"
  /\ AwaitPrevious(i)
  /\ \/ /\ \E hangs \in BOOLEAN :
             procs' = procs \cup {[kind |-> "debug", idx |-> i, hangs |-> hangs]}
        /\ heal' = [heal EXCEPT ![i].phase = "debugging"]
        /\ UNCHANGED healingResults
     \/ /\ healingResults' = CaughtResults(healingResults, failedTests[i])
        /\ heal' = [heal EXCEPT ![i] = Locals("finished")]
        /\ UNCHANGED procs
  /\ UNCHANGED files
  /\ Frame

\* the exec callback of runPlaywrightDebug: the child has exited, or it was
\* killed at the timeout
DebugCallback(i) ==
  /\ heal[i].phase = "debugging"
  /\ \E p \in procs, end \in DebugOutcomes :
       /\ p.kind = "debug" /\ p.idx = i
       /\ IF end[1] = "killed" THEN KillAtTimeout(p) ELSE ~p.hangs
       /\ procs' = procs \ {p}
       /\ heal' = [heal EXCEPT ![i].phase = "debugged",
                               ![i].debugResult = DebugResultOf(end[1], end[2])]
  /\ UNCHANGED <<healingResults, files>>
  /\ Frame

\* healSingleTest, step 2
Analyze(i) ==
  /\ heal[i].phase = "debugged"
  /\ heal' = [heal EXCEPT ![i].phase = "analyzed",
                          ![i].fixStrategy =
                            analyzeFailureAndCreateStrategy(failedTests[i],
                                                            heal[i].debugResult)]
  /\ UNCHANGED <<healingResults, procs, files>>
  /\ Frame

\* healSingleTest, step 3
Patch(i) ==
  /\ heal[i].phase = "analyzed"
  /\ \E io \in IOOutcomes :
       LET done == applyTestFixes(files, failedTests[i].file, heal[i].fixStrategy, io)
       IN  /\ files' = done.fs
           /\ heal' = [heal EXCEPT ![i].phase = "patched",
                                   ![i].appliedFixes = done.appliedFixes]
  /\ UNCHANGED <<healingResults, procs>>
  /\ Frame

\* the rerun is started as soon as the strategy is known, if the call of
\* applyTestFixes were not awaited
PatchNotAwaited(i) == heal[i].phase \in {"analyzed", "patched"}

\* const appliedFixes = await this.applyTestFixes(...): step 4 follows when
\* the patch has returned
AwaitPatch(i) == heal[i].phase = "patched"

\* healSingleTest, step 4: rerunSingleTest calls exec, which starts a child or
\* throws
StartRerun(i) ==
  /\ AwaitPatch(i)
  /\ \/ /\ \E hangs \in BOOLEAN :
             procs' = procs \cup {[kind |-> "rerun", idx |-> i, hangs |-> hangs]}
        /\ heal' = [heal EXCEPT ![i].phase = "rerunning"]
        /\ UNCHANGED healingResults
     \/ /\ healingResults' = CaughtResults(healingResults, failedTests[i])
        /\ heal' = [heal EXCEPT ![i] = Locals("finished")]
        /\ UNCHANGED procs
  /\ UNCHANGED files
  /\ Frame

\* the exec callback of rerunSingleTest
RerunCallback(i) ==
  /\ heal[i].phase = "rerunning"
  /\ \E p \in procs, end \in RerunOutcomes :
       /\ p.kind = "rerun" /\ p.idx = i
       /\ IF end[1] = "killed" THEN KillAtTimeout(p) ELSE ~p.hangs
       /\ procs' = procs \ {p}
       /\ heal' = [heal EXCEPT ![i].phase = "reran",
                               ![i].rerunResult = RerunResultOf(end[1], end[2]),
                               ![i].rerunError = end[1],
                               ![i].rerunStdout = end[2].kind]
  /\ UNCHANGED <<healingResults, files>>
  /\ Frame

\* the object healSingleTest returns, with the rerun's own success flag as
\* the result's
HealingResultRerunSuccess(failedTest, locals) ==
  [testId |-> failedTest.testId,
   originalError |-> failedTest.error,
   fixStrategy |-> locals.fixStrategy,
   appliedFixes |-> locals.appliedFixes,
   rerunResult |-> locals.rerunResult,
   success |-> locals.rerunResult.success,
   finalStatus |-> locals.rerunResult.status,
   healingLog |-> locals.debugResult.log]

\* the object healSingleTest returns
HealingResult(failedTest, locals) ==
  [testId |-> failedTest.testId,
   originalError |-> failedTest.error,
   fixStrategy |-> locals.fixStrategy,
   appliedFixes |-> locals.appliedFixes,
   rerunResult |-> locals.rerunResult,
   success |-> locals.rerunResult.status = "passed",
   finalStatus |-> locals.rerunResult.status,
   healingLog |-> locals.debugResult.log]

\* healSingleTest returns and the loop pushes its result and starts the delay
RecordResult(i) ==
  /\ heal[i].phase = "reran"
  /\ healingResults' = Append(healingResults, HealingResult(failedTests[i], heal[i]))
  /\ heal' = [heal EXCEPT ![i] = Locals("delaying")]
  /\ UNCHANGED <<procs, files>>
  /\ Frame

\* the timer of the delay between healing attempts fires
DelayElapsed(i) ==
  /\ heal[i].phase = "delaying"
  /\ heal' = [heal EXCEPT ![i].phase = "finished"]
  /\ UNCHANGED <<healingResults, procs, files>>
  /\ Frame

\* the for-of loop of autoHealFailedTests ends, if a break left it at the
\* first caught error
LoopOverOnError ==
  \/ \A i \in 1..Len(failedTests) : heal[i].phase = "finished"
  \/ \E k \in 1..Len(healingResults) : "error" \in DOMAIN healingResults[k]

\* the for-of loop of autoHealFailedTests ends when every failed test was taken
LoopOver == \A i \in 1..Len(failedTests) : heal[i].phase = "finished"

\* the loop is over: createHealingSummaryIssue builds the report and posts it
CreateHealingSummaryIssue ==
  /\ pc = "healing"
  /\ LoopOver
  /\ healingSummary' = Append(healingSummary, generateHealingSummary(healingResults))
  /\ pc' = "summary"
  /\ UNCHANGED <<autoHealEnabled, testResults, failedTests, ignored, healingResults,
                 heal, procs, files, jira, env, arg, ret,
                 sync, tracker>>

\* the request settles (Jira answers or the request fails) and
\* autoHealFailedTests returns
HealingPostSettles ==
  /\ pc = "summary"
  /\ \E ok \in BOOLEAN : jira' = IF ok THEN Append(jira, "healing") ELSE jira
  /\ pc' = "execution"
  /\ UNCHANGED <<autoHealEnabled, testResults, failedTests, ignored, healingResults,
                 heal, procs, files, healingSummary, env, arg, ret,
                 sync, tracker>>

\* createTestExecution, and the end of onEnd
CreateTestExecution ==
  /\ pc = "execution"
  /\ \E ok \in BOOLEAN : jira' = IF ok THEN Append(jira, "execution") ELSE jira
  /\ pc' = "done"
  /\ UNCHANGED <<autoHealEnabled, testResults, failedTests, ignored, healingResults,
                 heal, procs, files, healingSummary, env, arg, ret,
                 sync, tracker>>

HealStep ==
  \E i \in 1..MaxTests :
    \/ StartDebug(i)
    \/ DebugCallback(i)
    \/ Analyze(i)
    \/ Patch(i)
    \/ StartRerun(i)
    \/ RerunCallback(i)
    \/ RecordResult(i)
    \/ DelayElapsed(i)

Next ==
  \/ \E title \in Titles :
       \/ OnTestEnd(title, "passed", <<>>)
       \/ \E status \in UnsuccessfulStatuses, error \in FailuresOf(title) :
            OnTestEnd(title, status, error)
  \/ OnEnd
  \/ HealStep
  \/ CreateHealingSummaryIssue
  \/ HealingPostSettles
  \/ CreateTestExecution

Spec == Init /\ [][Next]_vars

SpecSingle == InitSingle /\ [][Next]_vars

\* a batch where a child process runs to its end or hangs until it is killed
InitLive ==
  /\ autoHealEnabled \in BOOLEAN
  /\ testResults = <<>>
  /\ failedTests = <<>>
  /\ ignored = 0
  /\ pc = "running"
  /\ healingResults = <<>>
  /\ heal = [i \in 1..MaxTests |-> Locals("pending")]
  /\ procs = {}
  /\ files = [f \in Files |-> InitialContent]
  /\ jira = <<>>
  /\ healingSummary = <<>>
  /\ env = "live"
  /\ arg = <<>>
  /\ ret = <<>>
  /\ sync = NoSync
  /\ tracker = <<>>

\* The event loop runs every continuation that is ready, a child process
\* exits or is killed at its timeout, the timer of the delay fires and the
\* request to Jira settles.
FairSpec ==
  /\ InitLive /\ [][Next]_vars
  /\ WF_vars(HealStep)
  /\ WF_vars(CreateHealingSummaryIssue)
  /\ WF_vars(HealingPostSettles)

----------------------------------------------------------------------------
(* Function specifications: one call of a function on each input *)

Idle ==
  /\ autoHealEnabled = TRUE
  /\ testResults = <<>>
  /\ failedTests = <<>>
  /\ ignored = 0
  /\ healingResults = <<>>
  /\ heal = [i \in 1..MaxTests |-> Locals("pending")]
  /\ procs = {}
  /\ files = [f \in Files |-> InitialContent]
  /\ jira = <<>>
  /\ healingSummary = <<>>
  /\ env = "function"
  /\ ret = <<>>
  /\ sync = NoSync
  /\ tracker = <<>>

\* error messages of Playwright failures, a punctuation mark being a word
TimeoutMessage == <<"Test", "timeout", "of", "30000ms", "exceeded">>
StrictModeMessage ==
  <<"strict", "mode", "violation", ":", "locator", "resolved", "to", "3", "elements">>
ElementMessage == <<"Element", "not", "found", ":", "#submit">>
GotoMessage == <<"page.goto", ":", "net::ERR_CONNECTION_REFUSED">>
AssertionMessage ==
  <<"assertion", "failed", ":", "expected", "1", "to", "equal", "2">>

ScenarioMessages ==
  {TimeoutMessage, StrictModeMessage, ElementMessage, GotoMessage, AssertionMessage}

\* analyzeFailureAndCreateStrategy on a failed test with any error message,
\* or none
InitClassify ==
  /\ Idle
  /\ pc = "classify"
  /\ arg \in {<<>>} \cup {<<m>> : m \in Messages \cup ScenarioMessages}

CallAnalyze ==
  /\ pc = "classify"
  /\ ret' = <<analyzeFailureAndCreateStrategy([testId |-> "VAL-1", error |-> arg],
                                               NoDebugResult)>>
  /\ pc' = "returned"
  /\ UNCHANGED <<autoHealEnabled, testResults, failedTests, ignored, healingResults,
                 heal, procs, files, jira, healingSummary, env, arg, sync,
                 tracker>>

SpecClassify == InitClassify /\ [][CallAnalyze]_vars

\* n results of which the first h are successes
ResultsOf(n, h) == [k \in 1..n |-> [testId |-> "VAL-1", success |-> k <= h]]

\* generateHealingSummary on n > 0 results of which h are successes
InitSummary ==
  /\ Idle
  /\ pc = "summarise"
  /\ arg \in {<<n, h>> : n \in 1..MaxSummaryN, h \in 0..MaxSummaryN} 
  /\ arg[2] <= arg[1]

CallGenerateHealingSummary ==
  /\ pc = "summarise"
  /\ ret' = <<generateHealingSummary(ResultsOf(arg[1], arg[2]))>>
  /\ pc' = "returned"
  /\ UNCHANGED <<autoHealEnabled, testResults, failedTests, ignored, healingResults,
                 heal, procs, files, jira, healingSummary, env, arg, sync,
                 tracker>>

SpecSummary == InitSummary /\ [][CallGenerateHealingSummary]_vars

\* the statements of a test: a navigation, clicks on a locator or on a text
Bodies ==
  {<<"await", Goto, ";">>,
   <<"await", Locator, Click, ";">>,
   <<"await", GetByText, Click, ";">>,
   <<"await", Goto, ";", "await", Locator, Click, ";">>}

\* the test declarations with these bodies, one after the other
RECURSIVE Declarations(_)
Declarations(bodies) ==
  IF bodies = <<>> THEN <<>>
  ELSE <<TestDecl>> \o Head(bodies) \o <<EndTest>> \o Declarations(Tail(bodies))

\* what a test file holds before its declarations: nothing, or a timeout
\* directive or slow marker already
Headers == {<<>>, <<SetTimeoutStmt>>, <<SlowStmt>>}

\* the test files read by applyTestFixes
Contents ==
  {header \o Declarations(bodies) :
     header \in Headers, bodies \in UNION {[1..k -> Bodies] : k \in 1..MaxDecls}}

Strategies ==
  {UnknownStrategy, TimeoutStrategy, SelectorStrategy, ElementStrategy,
   NavigationStrategy}

\* a test file that fails twice with the same kind of error
InitPatch ==
  /\ autoHealEnabled = TRUE
  /\ testResults = <<>>
  /\ failedTests = <<>>
  /\ ignored = 0
  /\ healingResults = <<>>
  /\ heal = [i \in 1..MaxTests |-> Locals("pending")]
  /\ procs = {}
  /\ \E content \in Contents : files = [f \in Files |-> content]
  /\ jira = <<>>
  /\ healingSummary = <<>>
  /\ env = "function"
  /\ pc = "patch"
  /\ arg \in {<<strategy>> : strategy \in Strategies}
  /\ ret = <<>>
  /\ sync = NoSync
  /\ tracker = <<>>

\* applyTestFixes on the file, in a first run and in a later run with the
\* same strategy; ret keeps what each call read
CallApplyTestFixes ==
  /\ pc \in {"patch", "patchedOnce"}
  /\ LET done == applyTestFixes(files, "tests/a.spec.js", arg[1], "ok")
     IN  files' = done.fs
  /\ ret' = Append(ret, files["tests/a.spec.js"])
  /\ pc' = IF pc = "patch" THEN "patchedOnce" ELSE "patchedTwice"
  /\ UNCHANGED <<autoHealEnabled, testResults, failedTests, ignored, healingResults,
                 heal, procs, jira, healingSummary, env, arg, sync,
                 tracker>>

SpecPatch == InitPatch /\ [][CallApplyTestFixes]_vars

----------------------------------------------------------------------------
(* scripts/sync-traceability-to-jira.js *)

\* process.env.DRY_RUN and process.env.UPDATE_EXISTING, "" when unset
Environments == [DRY_RUN : {"", "true", "false"}, UPDATE_EXISTING : {"", "true", "false"}]

\* the rows of the CSV file: their Test ID and Test Name columns
Rows ==
  {[testId |-> "VAL-1", testName |-> "loads"],
   [testId |-> "VAL-2", testName |-> "submits"],
   [testId |-> "", testName |-> "orphan"]}

CsvFiles == UNION {[1..n -> Rows] : n \in 0..MaxCases}

\* the 'data' handler of parseCsvFile skips a row without Test ID or Test Name
KeepRow(row) == row.testId # "" /\ row.testName # ""

parseCsvFile(csv) == SelectSeq(csv, KeepRow)

\* new TraceabilityMatrixSync() in the run-th run over the CSV file, and the
\* locals of syncTraceabilityMatrix and syncTestCases; requests are those that
\* Jira has received, called tells whether a user of the exported class has
\* called updateJiraIssue on the object
NewSync(environment, csv, run, requests) ==
  [made |-> TRUE,
   environment |-> environment,
   dryRun |-> environment.DRY_RUN = "true",
   updateExisting |-> environment.UPDATE_EXISTING # "false",
   csv |-> csv,
   testCases |-> <<>>,
   i |-> 1,
   results |-> [created |-> <<>>, updated |-> <<>>, skipped |-> <<>>, errors |-> <<>>],
   run |-> run,
   requests |-> requests,
   called |-> FALSE]

\* the key Jira gives to the n-th issue of the project
KeyOf(n) == <<"VAL", n>>

\* findExistingIssue: no search is made and null is returned; an optional
\* issue is <<>> or <<[key |-> ...]>>
findExistingIssue(issues, testId) == <<>>

\* createJiraIssue, if it had no dry-run branch
createJiraIssueAlwaysPosts(dryRun, issues, testCase, ok) ==
  IF ok
    THEN [threw |-> FALSE, key |-> KeyOf(Len(issues) + 1),
          issues |-> Append(issues, testCase.testId),
          sent |-> <<[method |-> "POST", path |-> "/rest/api/3/issue"]>>]
  ELSE [threw |-> TRUE, key |-> <<>>, issues |-> issues,
        sent |-> <<[method |-> "POST", path |-> "/rest/api/3/issue"]>>]

\* createJiraIssue(testCase) on the issues of the project; ok tells whether
\* Jira accepts the POST.  Returns the key of the result, or that it threw.
createJiraIssue(dryRun, issues, testCase, ok) ==
  IF dryRun
    THEN [threw |-> FALSE, key |-> <<"DRY-RUN", 1>>, issues |-> issues, sent |-> <<>>]
  ELSE IF ok
    THEN [threw |-> FALSE, key |-> KeyOf(Len(issues) + 1),
          issues |-> Append(issues, testCase.testId),
          sent |-> <<[method |-> "POST", path |-> "/rest/api/3/issue"]>>]
  ELSE [threw |-> TRUE, key |-> <<>>, issues |-> issues,
        sent |-> <<[method |-> "POST", path |-> "/rest/api/3/issue"]>>]

\* updateJiraIssue(issueKey, testCase); issueKey is KeyOf(n)
updateJiraIssue(dryRun, issues, issueKey, testCase, ok) ==
  IF dryRun
    THEN [threw |-> FALSE, key |-> issueKey, issues |-> issues, sent |-> <<>>]
  ELSE IF ok
    THEN [threw |-> FALSE, key |-> issueKey,
          issues |-> [issues EXCEPT ![issueKey[2]] = testCase.testId],
          sent |-> <<[method |-> "PUT", path |-> "/rest/api/3/issue/key"]>>]
  ELSE [threw |-> TRUE, key |-> <<>>, issues |-> issues,
        sent |-> <<[method |-> "PUT", path |-> "/rest/api/3/issue/key"]>>]

\* main(): the script is started on a CSV file, in a project that holds no
\* issue or already one for VAL-1
InitSync ==
  /\ autoHealEnabled = TRUE
  /\ testResults = <<>>
  /\ failedTests = <<>>
  /\ ignored = 0
  /\ healingResults = <<>>
  /\ heal = [i \in 1..MaxTests |-> Locals("pending")]
  /\ procs = {}
  /\ files = [f \in Files |-> InitialContent]
  /\ jira = <<>>
  /\ healingSummary = <<>>
  /\ env = "function"
  /\ arg = <<>>
  /\ ret = <<>>
  /\ pc = "verify"
  /\ \E environment \in Environments, csv \in CsvFiles :
       sync = NewSync(environment, csv, 1, <<>>)
  /\ tracker \in {<<>>, <<"VAL-1">>}

SyncFrame ==
  UNCHANGED <<autoHealEnabled, testResults, failedTests, ignored, healingResults,
              heal, procs, files, jira, healingSummary, env, arg, ret>>

\* verifyJiraConnection: the project is fetched, or the script fails
VerifyJiraConnection ==
  /\ pc = "verify"
  /\ sync' = [sync EXCEPT !.requests =
                Append(@, [method |-> "GET", path |-> "/rest/api/3/project"])]
  /\ \E ok \in BOOLEAN : pc' = IF ok THEN "parse" ELSE "syncFailed"
  /\ UNCHANGED tracker
  /\ SyncFrame

\* parseCsvFile
ParseCsvFile ==
  /\ pc = "parse"
  /\ sync' = [sync EXCEPT !.testCases = parseCsvFile(sync.csv)]
  /\ pc' = "syncing"
  /\ UNCHANGED tracker
  /\ SyncFrame

\* the catch block of the loop of syncTestCases, if it did not record the
\* test case
CaughtErrorsDropped(errors, testCase) == errors

\* the catch block of the loop of syncTestCases
CaughtErrors(errors, testCase) == Append(errors, [testId |-> testCase.testId])

\* one iteration of the loop of syncTestCases
SyncTestCase ==
  /\ pc = "syncing"
  /\ sync.i <= Len(sync.testCases)
  /\ LET testCase == sync.testCases[sync.i]
         existingIssue == findExistingIssue(tracker, testCase.testId)
     IN  \E ok \in BOOLEAN :
           IF existingIssue # <<>>
             THEN IF sync.updateExisting
                    THEN LET done == updateJiraIssue(sync.dryRun, tracker,
                                                     existingIssue[1].key, testCase, ok)
                         IN  /\ tracker' = done.issues
                             /\ sync' =
                                  [sync EXCEPT
                                     !.i = @ + 1,
                                     !.requests = @ \o done.sent,
                                     !.results.updated =
                                       IF done.threw THEN @
                                       ELSE Append(@, [testId |-> testCase.testId,
                                                       key |-> existingIssue[1].key]),
                                     !.results.errors =
                                       IF done.threw
                                         THEN CaughtErrors(@, testCase)
                                         ELSE @]
                    ELSE /\ tracker' = tracker
                         /\ sync' =
                              [sync EXCEPT
                                 !.i = @ + 1,
                                 !.results.skipped =
                                   Append(@, [testId |-> testCase.testId,
                                              key |-> existingIssue[1].key])]
             ELSE LET done == createJiraIssue(sync.dryRun, tracker, testCase, ok)
                  IN  /\ tracker' = done.issues
                      /\ sync' =
                           [sync EXCEPT
                              !.i = @ + 1,
                              !.requests = @ \o done.sent,
                              !.results.created =
                                IF done.threw THEN @
                                ELSE Append(@, [testId |-> testCase.testId,
                                                key |-> done.key]),
                              !.results.errors =
                                IF done.threw
                                  THEN CaughtErrors(@, testCase)
                                  ELSE @]
  /\ UNCHANGED pc
  /\ SyncFrame

\* syncTestCases returns and printSummary prints the results
PrintSummary ==
  /\ pc = "syncing"
  /\ sync.i > Len(sync.testCases)
  /\ pc' = "synced"
  /\ UNCHANGED <<sync, tracker>>
  /\ SyncFrame

\* a user of the exported class calls updateJiraIssue(issueKey, testCase), once,
\* for a test case of the matrix and the key of its issue
CallUpdateJiraIssue ==
  /\ pc = "synced"
  /\ ~sync.called
  /\ \E n \in 1..Len(tracker), c \in 1..Len(sync.testCases), ok \in BOOLEAN :
       /\ tracker[n] = sync.testCases[c].testId
       /\ LET done == updateJiraIssue(sync.dryRun, tracker, KeyOf(n),
                                      sync.testCases[c], ok)
          IN  /\ tracker' = done.issues
              /\ sync' = [sync EXCEPT !.called = TRUE, !.requests = @ \o done.sent]
  /\ UNCHANGED pc
  /\ SyncFrame

\* the script is run again over the same CSV file, in the same environment
RunAgain ==
  /\ pc \in {"synced", "syncFailed"}
  /\ sync.run < MaxRuns
  /\ sync' = NewSync(sync.environment, sync.csv, sync.run + 1, sync.requests)
  /\ pc' = "verify"
  /\ UNCHANGED tracker
  /\ SyncFrame

NextSync ==
  \/ VerifyJiraConnection
  \/ ParseCsvFile
  \/ SyncTestCase
  \/ PrintSummary
  \/ CallUpdateJiraIssue
  \/ RunAgain

SpecSync == InitSync /\ [][NextSync]_vars

----------------------------------------------------------------------------
(* Claims *)

\* the phases in which a call of healSingleTest is under way
Active == {"debugging", "debugged", "analyzed", "patched", "rerunning", "reran"}

\* autoHealFailedTests has returned
Returned == pc \in {"execution", "done"} /\ autoHealEnabled /\ Len(failedTests) > 0

\* C1: autoHealFailedTests produces exactly one healing result per failed
\* test, in batch order, whether healSingleTest returns or throws: the k-th
\* result carries the k-th record's testId, a test has a result exactly when
\* its iteration has pushed one, and the returned list is as long as the batch.
C1_OneResultPerFailedTest ==
  /\ Len(healingResults) <= Len(failedTests)
  /\ \A k \in 1..Len(healingResults) : healingResults[k].testId = failedTests[k].testId
  /\ \A i \in 1..Len(failedTests) :
       heal[i].phase \in {"delaying", "finished"} <=> i <= Len(healingResults)
  /\ pc \in {"summary", "execution", "done"} => Len(healingResults) = Len(failedTests)

\* a batch of two different tests, one healed by a call that returned and one
\* whose call threw, after autoHealFailedTests returned
C1_Witness ==
  /\ Returned
  /\ Len(healingResults) = 2
  /\ healingResults[1].testId # healingResults[2].testId
  /\ "error" \in DOMAIN healingResults[1]
  /\ "rerunResult" \in DOMAIN healingResults[2]

\* C2: a healing result is a success iff the status of its rerun outcome is
\* 'passed'; a result of the error path has no rerun outcome and is no success.
C2_SuccessIffPassed ==
  \A k \in 1..Len(healingResults) :
    LET r == healingResults[k]
    IN  r.success <=> ("rerunResult" \in DOMAIN r /\ r.rerunResult.status = "passed")

\* a result that is a success although the rerun's own success flag is false
\* (the child exited with an error and reported 'passed')
C2_Witness ==
  \E k \in 1..Len(healingResults) :
    /\ "rerunResult" \in DOMAIN healingResults[k]
    /\ healingResults[k].success
    /\ ~healingResults[k].rerunResult.success

\* C3: a fault in a step of one failed test never aborts the batch: the
\* healing summary is built at most once, only after every failed test of the
\* batch has been processed and has its result, and it has been built once
\* autoHealFailedTests has returned.
C3_BatchNeverAborted ==
  /\ Len(healingSummary) <= 1
  /\ Len(healingSummary) = 1 =>
       /\ \A i \in 1..Len(failedTests) : heal[i].phase = "finished"
       /\ healingSummary[1].total = Len(failedTests)
  /\ Returned => Len(healingSummary) = 1

\* the summary was built over a batch of two tests whose healing attempts
\* both threw
C3_Witness ==
  /\ Returned
  /\ Len(healingSummary) = 1
  /\ Len(healingResults) = 2
  /\ \A k \in 1..2 : "error" \in DOMAIN healingResults[k]

\* C4: healing is sequential: no step of a failed test starts before the
\* result of the previous one has been recorded, at most one healSingleTest
\* call is under way and at most one child process is running.
C4_Sequential ==
  /\ Cardinality(procs) <= 1
  /\ Cardinality({i \in 1..MaxTests : heal[i].phase \in Active}) <= 1
  /\ \A i \in 2..MaxTests :
       heal[i].phase # "pending" =>
         /\ Len(healingResults) >= i - 1
         /\ heal[i - 1].phase = "finished"

\* the rerun of the second failed test is running after the first test's
\* result was recorded
C4_Witness ==
  /\ Len(failedTests) = 2
  /\ heal[2].phase = "rerunning"
  /\ \E p \in procs : p.kind = "rerun" /\ p.idx = 2
  /\ Len(healingResults) = 1

\* the detection rules of the classifier, in priority order
Rules ==
  <<[type |-> "timeout",
     patterns |-> {<<"Test", "timeout">>, <<"30000ms", "exceeded">>}],
    [type |-> "selector",
     patterns |-> {<<"strict", "mode", "violation">>, <<"multiple", "elements">>}],
    [type |-> "element_missing",
     patterns |-> {<<"Element", "not", "found">>, <<"not", "visible">>}],
    [type |-> "navigation",
     patterns |-> {<<"page.goto">>, <<"navigation">>}]>>

\* the rules of which a pattern occurs in the message
Matching(message) ==
  {k \in 1..Len(Rules) : \E pattern \in Rules[k].patterns : Includes(message, pattern)}

\* C5: the category is that of the highest-priority rule (Timeout, Selector,
\* ElementMissing, Navigation) of which a pattern occurs in the error message,
\* and it is Unknown exactly when no rule matches or the message is absent.
C5_FirstMatchWins ==
  pc = "returned" =>
    LET hits == IF arg = <<>> THEN {} ELSE Matching(arg[1])
    IN  /\ ret[1].type = "unknown" <=> hits = {}
        /\ \A k \in hits : (\A j \in hits : k <= j) => ret[1].type = Rules[k].type

\* a message with a timeout pattern and a selector pattern was classified
C5_Witness ==
  /\ pc = "returned"
  /\ arg # <<>>
  /\ {1, 2} \subseteq Matching(arg[1])
  /\ ret[1].type = "timeout"

\* C6 (as claimed): the strategy of a healing result is the one for the error
\* reproduced by the debug run when that run produced one, and the one for the
\* original record's error otherwise.
C6_ClassifiesReproducedError ==
  \A k \in 1..Len(healingResults) :
    LET r == healingResults[k]
    IN  "fixStrategy" \in DOMAIN r =>
          r.fixStrategy.type =
            StrategyForError(IF r.healingLog # <<>> THEN r.healingLog
                             ELSE OrEmpty(r.originalError)).type

\* C7 (as claimed): the strategy returned for any category, Unknown included,
\* has a non-empty list of fix identifiers and a non-empty rationale.
C7_StrategyNeverEmpty ==
  pc = "returned" => ret[1].fixes # <<>> /\ ret[1].reason # ""

\* C8 (as claimed): in a summary over N > 0 results, healed + failed = N = the
\* reported total, healed is the number of successes and the success rate is
\* 100 * healed / N rounded to the nearest integer.
C8_SummaryCounters ==
  pc = "returned" =>
    LET summary == ret[1]
        n == arg[1]
        h == arg[2]
    IN  /\ summary.healed + summary.failed = n
        /\ summary.total = n
        /\ summary.healed = h
        /\ 2 * n * summary.successRate <= 200 * h + n
        /\ 200 * h + n < 2 * n * (summary.successRate + 1)

\* C9 (as claimed): a rerun whose child was killed at the timeout has the
\* status of a timed-out verification.
C9_TimedOutStatus ==
  \A i \in 1..MaxTests :
    heal[i].phase = "reran" /\ heal[i].rerunError = "killed" =>
      heal[i].rerunResult.status = "timedOut"

C11_UnparseableHasError ==
  \A i \in 1..MaxTests :
    heal[i].phase = "reran" /\ heal[i].rerunStdout \in {"malformed", "noentry"} =>
      /\ heal[i].rerunResult.error # <<>>
      /\ ~heal[i].rerunResult.success

\* C12 (as claimed): when the callback of the rerun's exec was given an error,
\* the healing result pushed for that test has success = false, whatever the
\* standard output held.
C12_ExecErrorNeverSuccess ==
  [][\A i \in 1..MaxTests :
       (/\ heal[i].phase = "reran"
        /\ heal[i].rerunError # "none"
        /\ Len(healingResults') = Len(healingResults) + 1)
       => ~healingResults'[Len(healingResults')].success]_vars

\* the list of applied fixes ends with the description of a caught IO error
IOErrorRecorded(appliedFixes) ==
  /\ appliedFixes # <<>>
  /\ appliedFixes[Len(appliedFixes)] \in
       {"Error applying fixes: read failed", "Error applying fixes: write failed"}

\* C13 (as claimed): when reading or writing the test file failed during the
\* patch, the file is left as it was and the healing result of that test,
\* which records the IO error, has success = false; the batch goes on (the
\* summary is built over every failed test).
C13_PatchIOErrorFails ==
  /\ \A i \in 1..MaxTests :
       IOErrorRecorded(heal[i].appliedFixes) =>
         files[failedTests[i].file] = InitialContent
  /\ \A k \in 1..Len(healingResults) :
       LET r == healingResults[k]
       IN  "appliedFixes" \in DOMAIN r /\ IOErrorRecorded(r.appliedFixes) => ~r.success
  /\ Len(healingSummary) = 1 => healingSummary[1].total = Len(failedTests)

\* C19 (as claimed): after a patch without IO error the applied fix
\* descriptions are as many as the fix identifiers of the chosen strategy.
C19_OneDescriptionPerFix ==
  \A k \in 1..Len(healingResults) :
    LET r == healingResults[k]
    IN  "appliedFixes" \in DOMAIN r /\ ~IOErrorRecorded(r.appliedFixes) =>
          Len(r.appliedFixes) = Len(r.fixStrategy.fixes)

\* exec starts the child of the given kind for the i-th failed test in this step
Starts(kind, i) == \E p \in procs' \ procs : p.kind = kind /\ p.idx = i

\* C18: the steps of a failed test come in the order debug run,
\* classification, patch, rerun, result: the file is patched only after the
\* debug run has called back, the rerun starts only after the patch has
\* returned, it starts once in a call, and a result with a rerun outcome is
\* pushed only after the rerun has called back.
C18_PipelineOrder ==
  [][\A i \in 1..MaxTests :
       /\ Starts("debug", i) =>
            /\ heal[i].phase = "pending"
            /\ heal[i].appliedFixes = <<>>
       /\ (heal[i].appliedFixes = <<>> /\ heal'[i].appliedFixes # <<>>) =>
            /\ heal[i].debugResult # NoDebugResult
            /\ ~\E p \in procs : p.idx = i
            /\ heal'[i].fixStrategy = StrategyForError(OrEmpty(failedTests[i].error))
       /\ files' # files =>
            \E j \in 1..MaxTests :
              heal[j].appliedFixes = <<>> /\ heal'[j].appliedFixes # <<>>
       /\ Starts("rerun", i) =>
            /\ heal[i].appliedFixes # <<>>
            /\ heal[i].rerunStdout = ""
            /\ ~\E p \in procs : p.idx = i
       /\ heal[i].phase \in {"rerunning", "reran", "delaying", "finished"} =>
            ~Starts("rerun", i) /\ ~Starts("debug", i)
       /\ (/\ Len(healingResults') = i
           /\ Len(healingResults) = i - 1
           /\ "rerunResult" \in DOMAIN healingResults'[i]) =>
            /\ heal[i].rerunStdout # ""
            /\ healingResults'[i].rerunResult = heal[i].rerunResult
            /\ healingResults'[i].appliedFixes = heal[i].appliedFixes]_vars

\* both tests of a batch went through the whole pipeline: each has a result
\* with the outcome of its rerun, and the first one's file was patched
C18_Witness ==
  /\ Len(healingResults) = 2
  /\ \A k \in 1..2 : "rerunResult" \in DOMAIN healingResults[k]
  /\ healingResults[1].healingLog = <<>>
  /\ healingResults[2].healingLog # <<>>
  /\ files[failedTests[1].file] # InitialContent

\* C15: the five scenario messages classify as Timeout, SelectorAmbiguity,
\* ElementMissing, NavigationFailure and Unknown, in that order.
C15_ScenarioCategories ==
  (pc = "returned" /\ arg # <<>>) =>
    /\ arg[1] = TimeoutMessage => ret[1] = TimeoutStrategy
    /\ arg[1] = StrictModeMessage => ret[1] = SelectorStrategy
    /\ arg[1] = ElementMessage => ret[1] = ElementStrategy
    /\ arg[1] = GotoMessage => ret[1] = NavigationStrategy
    /\ arg[1] = AssertionMessage => ret[1] = UnknownStrategy

\* the navigation scenario was classified
C15_Witness ==
  /\ pc = "returned"
  /\ arg = <<GotoMessage>>
  /\ ret[1].type = "navigation"

\* the file the function specification of applyTestFixes patches
PatchedFile == files["tests/a.spec.js"]

\* C14 (as claimed): patching is idempotent for every strategy: the second
\* application of a strategy leaves the content as the first one made it.
C14_PatchIdempotent ==
  pc = "patchedTwice" => PatchedFile = ret[2]

\* the number of occurrences of a piece in a content
Occurrences(content, piece) ==
  Cardinality({k \in 1..Len(content) : content[k] = piece})

\* the content with the piece put in front of its first test declaration
BeforeFirstDecl(content, piece) ==
  LET first == CHOOSE k \in 1..Len(content) :
                 content[k] = TestDecl /\ \A j \in 1..(k - 1) : content[j] # TestDecl
  IN  SubSeq(content, 1, first - 1) \o <<piece>> \o SubSeq(content, first, Len(content))

\* C20 (as claimed): the timeout transformation of a content with k >= 1 test
\* declarations and no timeout directive injects the directive exactly once,
\* before the first test declaration, and changes nothing else.
C20_TimeoutInjectedOnce ==
  (/\ pc = "patchedOnce"
   /\ arg[1] = TimeoutStrategy
   /\ Occurrences(ret[1], TestDecl) >= 1
   /\ Occurrences(ret[1], SetTimeoutStmt) = 0) =>
    /\ Occurrences(PatchedFile, SetTimeoutStmt) = 1
    /\ PatchedFile = BeforeFirstDecl(ret[1], SetTimeoutStmt)

\* C16: in dry-run mode (DRY_RUN = 'true') no step of the sync changes the
\* issues of the Jira project, and Jira has received no POST and no PUT.
C16_DryRunSendsNothing ==
  [][(sync.made /\ sync.environment.DRY_RUN = "true") =>
       /\ tracker' = tracker
       /\ \A k \in 1..Len(sync'.requests) :
            sync'.requests[k].method \notin {"POST", "PUT"}]_vars

\* a dry run over two test cases has finished in a project that already holds
\* an issue: it reports both as created, and updateJiraIssue was called too
C16_Witness ==
  /\ pc = "synced"
  /\ sync.environment.DRY_RUN = "true"
  /\ Len(sync.results.created) = 2
  /\ sync.called
  /\ tracker = <<"VAL-1">>

\* C17 (as claimed): with dry-run disabled and updating enabled, a test case
\* whose issue exists in the project is updated, not created again: the
\* project never holds a second issue for a Test ID.
C17_NoSecondIssue ==
  (sync.made /\ ~sync.dryRun /\ sync.updateExisting) =>
    \A k, j \in 1..Len(tracker) : tracker[k] = tracker[j] => k = j

\* C21 (as claimed): between two successive failed tests of a batch the loop
\* waits the delay, whether the first of them returned or threw: test i + 1
\* is taken only when test i is finished and has its result, and test i
\* becomes finished only when its delay has elapsed.
C21_DelayBetweenTests ==
  [][\A i \in 1..(Len(failedTests) - 1) :
       /\ (heal[i + 1].phase = "pending" /\ heal'[i + 1].phase # "pending") =>
            /\ heal[i].phase = "finished"
            /\ Len(healingResults) >= i
       /\ (heal[i].phase # "finished" /\ heal'[i].phase = "finished") =>
            /\ heal[i].phase = "delaying"
            /\ Len(healingResults) >= i]_vars

\* C22 (as claimed): the success flag of every result of healSingleTest is
\* the success flag of the rerun outcome it embeds.
C22_SuccessFlagsAgree ==
  \A k \in 1..Len(healingResults) :
    LET r == healingResults[k]
    IN  "rerunResult" \in DOMAIN r => r.success = r.rerunResult.success

\* a is b with some of its entries left out
RECURSIVE IsSubsequence(_, _)
IsSubsequence(a, b) ==
  IF a = <<>> THEN TRUE
  ELSE IF b = <<>> THEN FALSE
  ELSE IF Head(a) = Head(b) THEN IsSubsequence(Tail(a), Tail(b))
  ELSE IsSubsequence(a, Tail(b))

\* C23: failedTests is a subsequence of testResults, each of its entries has
\* status 'failed', it is empty when the autoHeal option is false, and no
\* entry of either list belongs to a title without a 'VAL-<digits>:' id.
C23_FailedTestsTracked ==
  /\ IsSubsequence(failedTests, testResults)
  /\ \A k \in 1..Len(failedTests) : failedTests[k].status = "failed"
  /\ ~autoHealEnabled => failedTests = <<>>
  /\ \A k \in 1..Len(testResults) :
       TestIdMatch(testResults[k].title) = <<testResults[k].testId>>

\* a test that timed out and a test that failed have ended, and only the
\* second is tracked for healing
C23_Witness ==
  /\ Len(testResults) = 2
  /\ testResults[1].status = "timedOut"
  /\ failedTests = <<testResults[2]>>

\* the kinds of the issues posted to Jira
Posted == {jira[k] : k \in 1..Len(jira)}

\* C24: healing runs only when auto-healing is enabled and a failed test was
\* tracked, so no healing summary is built over an empty list; when healing
\* does not run, no child is started, no test file is written and no healing
\* summary is built or posted; the test execution issue is attempted only
\* after healing, if any, has finished with its summary.
C24_HealingOnlyWithFailedTests ==
  /\ pc \in {"healing", "summary"} => autoHealEnabled /\ Len(failedTests) > 0
  /\ \A k \in 1..Len(healingSummary) :
       healingSummary[k].total > 0 /\ ~healingSummary[k].rateIsNaN
  /\ (pc # "running" /\ ~(autoHealEnabled /\ Len(failedTests) > 0)) =>
       /\ pc \in {"execution", "done"}
       /\ files = [f \in Files |-> InitialContent]
       /\ procs = {}
       /\ healingResults = <<>>
       /\ healingSummary = <<>>
       /\ "healing" \notin Posted
  /\ pc \in {"execution", "done"} =>
       /\ procs = {}
       /\ (autoHealEnabled /\ Len(failedTests) > 0) =>
            /\ \A i \in 1..Len(failedTests) : heal[i].phase = "finished"
            /\ Len(healingSummary) = 1
  /\ "execution" \in Posted => pc = "done"

\* auto-healing is enabled and tests have ended, none of them with status
\* 'failed': onEnd went on to the test execution issue without healing
C24_Witness ==
  /\ pc = "done"
  /\ autoHealEnabled
  /\ Len(testResults) = 2
  /\ testResults[2].status = "timedOut"
  /\ failedTests = <<>>
  /\ jira = <<"execution">>

\* the number of entries of a bucket, or of the test cases, with this Test ID
CountId(entries, testId) ==
  Cardinality({k \in 1..Len(entries) : entries[k].testId = testId})

\* the four buckets of the results, one after the other
Buckets ==
  sync.results.created \o sync.results.updated \o sync.results.skipped
    \o sync.results.errors

\* C25: syncTestCases partitions its input: each test case processed so far
\* is in exactly one of created, updated, skipped and errors, and when
\* syncTestCases has returned the loop has taken every test case, so the four
\* counts add up to the number of test cases, errors or not.
C25_ResultsPartition ==
  (sync.made /\ pc \in {"syncing", "synced"}) =>
    /\ Len(Buckets) = sync.i - 1
    /\ \A testId \in TestIds :
         CountId(Buckets, testId) = CountId(SubSeq(sync.testCases, 1, sync.i - 1), testId)
    /\ pc = "synced" => Len(Buckets) = Len(sync.testCases)

\* the POST for the first of two test cases failed and the second one was
\* created all the same
C25_Witness ==
  /\ pc = "synced"
  /\ Len(sync.testCases) = 2
  /\ Len(sync.results.errors) = 1
  /\ Len(sync.results.created) = 1
  /\ sync.results.errors[1].testId = sync.testCases[1].testId
  /\ sync.results.created[1].testId = sync.testCases[2].testId
  /\ sync.testCases[1].testId # sync.testCases[2].testId

====
